---------------------------- MODULE Spec2Model ----------------------------
(***************************************************************************)
(* A model of 1_Hour_Crossy_Road_Challenge.py: the course generator        *)
(* (World), the rows (Lane) with their spawn schedulers, the agent         *)
(* (Player) and the per-frame hazard resolution of main().                 *)
(*                                                                         *)
(* Units.  The source computes in floats; the model computes in integers:  *)
(*   time      milliseconds            (dt, timers, HOP_TIME = 0.12 s)     *)
(*   Player.t  an exact double         (see Floats)                        *)
(*   position  thousandths of a pixel  (x, w of Car/Log, Player.x)         *)
(*   speed     pixels per second       (speed * dt is then in 1/1000 px)   *)
(*   random()  hundredths              (roll, PROB_ROAD, PROB_RIVER_START) *)
(*   gaps      thousandths of a tile   (GAP_*_TILES, LOG_GAP_*_TILES)      *)
(* None is "none" for river_mode and NoCol for route_col.                  *)
(* Rendering (draw methods, palettes, camera, fonts) is left out: it reads *)
(* the state and decides nothing.                                          *)
(***************************************************************************)
EXTENDS Integers, Sequences, FiniteSets, TLC

---------------------------------------------------------------------------
(* Config (source lines 17-62) *)

SCREEN_W == 480
TILE == 48
COLS == SCREEN_W \div TILE
SAFE_MARGIN_ROWS == 18
HOP_TIME == 120
PLAYER_SIZE == (TILE * 70) \div 100

PROB_ROAD == 45
PROB_RIVER_START == 25
MIN_GRASS_BETWEEN_HAZARDS == 1
MAX_CONSEC_ROADS == 3

CAR_H == (TILE * 80) \div 100
CAR_MIN_W == TILE
CAR_MAX_W == (TILE * 245) \div 100
CAR_MIN_SPEED == 120
CAR_MAX_SPEED == 320

GAP_MIN_TILES == 2600
GAP_MAX_TILES == 4800
SPAWN_JITTER == 200

LOG_H == (TILE * 70) \div 100
LOG_MIN_W == (TILE * 18) \div 10
LOG_MAX_W == (TILE * 33) \div 10
LOG_MIN_SPEED == 60
LOG_MAX_SPEED == 170
LOG_GAP_MIN_TILES == 1700
LOG_GAP_MAX_TILES == 3300

\* route_col = None
NoCol == -1

---------------------------------------------------------------------------
(* Bounds of the model *)

\* SpecWorld: the agent row passed to ensure_rows stays at or below MaxRow,
\* and the lane policy's roll may leave the grass band only for rows
\* ZoneLo .. ZoneHi
MaxRow == 9
ZoneLo == 25
ZoneHi == 26
\* SpecRoads: the same, with the roll drawn from the road and grass bands
RoadMaxRow == 10
RoadZoneLo == 25
RoadZoneHi == 28
\* _grass_since_hazard is only ever compared with MIN_GRASS_BETWEEN_HAZARDS;
\* the model stops counting it at GrassCap (a value at or above GrassCap,
\* such as the initial 999, is left as it is)
GrassCap == 2

\* Spec: the frames main() runs and the rows whose roll is free
MaxFrames == 3

GameZoneLo == 2

GameZoneHi == 4

\* SpecPlayer: the highest row a hop starts from
PlayerMaxRow == 2

\* SpecScene: the frames main() runs and the row at which the user stops
\* asking for hops
SceneFrames == 66

SceneMaxRow == 3

\* SpecLanes: the ticks of world.update
LaneTicks == 8

\* SpecRestart: the last row whose roll is in the river band, and the frames
\* main() runs
RestartZoneHi == 40

RestartFrames == 6

\* SpecPads: the columns at the head of the shuffled list that take every
\* order
PadsPrefix == 4

\* SpecPolicy: the _choose_lane calls of one behaviour
PolicyCalls == 8

\* SpecRetreat: the highest row the agent walks to
RetreatMaxRow == 28

---------------------------------------------------------------------------
(* Helpers *)

clamp(v, lo, hi) == IF v < lo THEN lo ELSE IF v > hi THEN hi ELSE v

Abs(v) == IF v < 0 THEN -v ELSE v

Max(a, b) == IF a > b THEN a ELSE b

Min(a, b) == IF a < b THEN a ELSE b

\* Python's int(): truncation toward zero, of a value given in thousandths
PyInt(v) == IF v >= 0 THEN v \div 1000 ELSE -((-v) \div 1000)

SetMin(S) == CHOOSE m \in S : \A o \in S : m <= o

SetMax(S) == CHOOSE m \in S : \A o \in S : m >= o

---------------------------------------------------------------------------
(* Floats.  Player.t is a Python float (IEEE-754 double) that update()     *)
(* advances by dt / HOP_TIME and compares with 1.0.  The rounding of the   *)
(* sum decides the tick a hop lands on, so t is kept exactly: a double v   *)
(* with 0 <= v < 8 that is a multiple of 2^-60 is the triple <<h, m, l>>   *)
(* of 21-bit limbs of v * 2^60.                                            *)

Limb == 2^21

FZero == <<0, 0, 0>>

\* 1.0
FOne == <<2^18, 0, 0>>

\* the number of bits of n, for 0 <= n < 2^22
BitLen(n) == IF n = 0 THEN 0 ELSE CHOOSE b \in 1..22 : 2^(b - 1) <= n /\ n < 2^b

\* limbs after the carries
Carry(h, m, l) ==
    <<h + (m + l \div Limb) \div Limb, (m + l \div Limb) % Limb, l % Limb>>

\* round to nearest, ties to even, to the 53 significant bits of a double:
\* the low k = bits - 53 bits of the low limb are dropped (k <= 10)
FRound(v) ==
    LET k == 42 + BitLen(v[1]) - 53
        u == 2^k
        r == v[3] % u
        up == \/ 2 * r > u
              \/ 2 * r = u /\ (v[3] \div u) % 2 = 1
    IN  IF k <= 0 \/ r = 0 THEN v
        ELSE IF up THEN Carry(v[1], v[2], v[3] - r + u)
        ELSE <<v[1], v[2], v[3] - r>>

\* a + b in double arithmetic
FAdd(a, b) == FRound(Carry(a[1] + b[1], a[2] + b[2], a[3] + b[3]))

\* v >= 1.0
FAtLeastOne(v) == v[1] >= 2^18

\* v in thousandths, rounded down
FMilli(v) == (v[1] * 1000) \div 2^18

\* dt / HOP_TIME for dt = ms / 1000.0, both divisions in double arithmetic:
\* 0.012 / 0.12 is the double 0.1, 0.024 / 0.12 the double 0.2,
\* 0.04 / 0.12 the double 0.33333333333333337, 0.1 / 0.12 the double
\* 0.8333333333333334, 0.4 / 0.12 the double 3.3333333333333335
DtOverHop(ms) ==
    CASE ms = 12 -> <<26214, 838860, 1677728>>
      [] ms = 16 -> <<34952, 1118481, 139808>>
      [] ms = 24 -> <<52428, 1677721, 1258304>>
      [] ms = 40 -> <<87381, 699050, 1398144>>
      [] ms = 60 -> <<131072, 0, 0>>
      [] ms = 100 -> <<218453, 699050, 1398144>>
      [] ms = 120 -> <<262144, 0, 0>>
      [] ms = 400 -> <<873813, 699050, 1398272>>

---------------------------------------------------------------------------
(* Lane: construction *)

\* Car(x, w, speed, palette, kind); the palette is only drawn.  age is the
\* time since the occupant entered the row, in milliseconds.
Car(x, w, speed, kind) ==
    [x |-> x, w |-> w, speed |-> speed, kind |-> kind, age |-> 0]

\* Log(x, w, speed, direction), with age as for Car
Log(x, w, speed, direction) ==
    [x |-> x, w |-> w, speed |-> speed, dir |-> direction, age |-> 0]

\* Lane.__init__ before _init_road / _init_river.  deferred records that the
\* last update call took the else branch of "if can_spawn".
LaneFields(row_idx, lane_type, river_mode, route_col) ==
    [row |-> row_idx, type |-> lane_type, river_mode |-> river_mode,
     route_col |-> route_col,
     cars |-> <<>>, road_speed |-> 0, road_spawn_timer |-> 0,
     road_next_spawn_time |-> 0,
     logs |-> <<>>, log_dir |-> 1, log_speed |-> 0, log_spawn_timer |-> 0,
     log_next_spawn_time |-> 0, lilypads |-> <<>>, deferred |-> FALSE]

\* Lane._init_road; speed and first are its two random.uniform draws
init_road(lane, speed, first) ==
    [lane EXCEPT !.road_speed = speed,
                 !.road_next_spawn_time = first,
                 !.road_spawn_timer = 0]

\* the column is none of the pads
NotAPad(c, pads) == \A i \in 1..Len(pads) : c # pads[i]

\* all(abs(c - pc) >= 2 for pc in pads)
FarFromAll(c, pads) == \A i \in 1..Len(pads) : Abs(c - pads[i]) >= 2

\* the loop of _init_river over the shuffled columns
RECURSIVE AddPads(_, _, _)
AddPads(pads, cols, target_extra) ==
    IF cols = <<>> THEN pads
    ELSE IF Len(pads) >= 1 + target_extra THEN pads
    ELSE IF FarFromAll(Head(cols), pads)
         THEN AddPads(Append(pads, Head(cols)), Tail(cols), target_extra)
         ELSE AddPads(pads, Tail(cols), target_extra)

\* the pads drawn from the shuffled columns alone
PadsSkipRoute(lane, cols, target_extra) ==
    [lane EXCEPT !.lilypads = AddPads(<<>>, cols, target_extra + 1), !.logs = <<>>]

\* Lane._init_river, river_mode "pads"; cols is the shuffled list(range(COLS))

init_river_pads(lane, cols, target_extra) ==
    LET rc == IF lane.route_col # NoCol THEN lane.route_col ELSE COLS \div 2
    IN  [lane EXCEPT !.lilypads = AddPads(<<rc>>, cols, target_extra),
                     !.logs = <<>>]

\* Lane._calc_next_log_spawn_time; gap_tiles and jitter are its draws
calc_next_log_spawn_time(lane, gap_tiles, jitter) ==
    LET gap_px == gap_tiles * TILE
        base_time == gap_px \div Max(1, Abs(lane.log_speed))
    IN  Max(350, base_time + jitter)

\* Lane._spawn_log_offscreen; w and buffer_px are its draws
spawn_log_offscreen(lane, w, buffer_px) ==
    LET x == IF lane.log_dir = 1 THEN -w - buffer_px ELSE SCREEN_W * 1000 + buffer_px
    IN  [lane EXCEPT !.logs = Append(@, Log(x, w, Abs(lane.log_speed), lane.log_dir))]

\* Lane._init_river, river_mode "logs".  d holds the draws: dir, speed,
\* first (the uniform(0.35, 0.85)), seed (random() < 0.85), w, buffer,
\* recalc (random() < 0.45), gap, jitter
init_river_logs(lane, d) ==
    LET l1 == [lane EXCEPT !.lilypads = <<>>,
                           !.log_dir = d.dir,
                           !.log_speed = d.speed * d.dir,
                           !.log_spawn_timer = 0,
                           !.log_next_spawn_time = d.first]
        l2 == spawn_log_offscreen(l1, d.w, d.buffer)
    IN  IF ~d.seed THEN l1
        ELSE IF d.recalc
             THEN [l2 EXCEPT !.log_next_spawn_time =
                                 calc_next_log_spawn_time(l2, d.gap, d.jitter)]
             ELSE l2

\* The draws of one Lane construction, as a set of records.  D names the
\* values each random call may return.
RoadDraws(D) == [speed : D.car_speeds, first : D.first_spawn]

PadDraws(D) == [cols : D.shuffles, target_extra : D.extras]

LogDraws(D) ==
    { d \in [dir : D.log_dirs, speed : D.log_speeds, first : D.first_spawn,
             seed : D.seeds, w : D.log_widths, buffer : D.log_buffers,
             recalc : BOOLEAN, gap : D.log_gaps, jitter : D.log_jitters] :
        \* draws that are never made are fixed, so that one construction is
        \* one record
        /\ (~d.seed => /\ d.w = SetMin(D.log_widths)
                       /\ d.buffer = SetMin(D.log_buffers)
                       /\ ~d.recalc)
        /\ (~d.recalc => /\ d.gap = SetMin(D.log_gaps)
                         /\ d.jitter = SetMin(D.log_jitters)) }

\* Lane(row_idx, lane_type, river_mode, route_col): every lane the
\* constructor can return
Lanes(row_idx, lane_type, river_mode, route_col, D) ==
    LET lane == LaneFields(row_idx, lane_type, river_mode, route_col)
    IN  IF lane_type = "road"
        THEN { init_road(lane, d.speed, d.first) : d \in RoadDraws(D) }
        ELSE IF lane_type = "river"
        THEN IF river_mode = "pads"
             THEN { init_river_pads(lane, d.cols, d.target_extra) : d \in PadDraws(D) }
             ELSE { init_river_logs(lane, d) : d \in LogDraws(D) }
        ELSE { lane }

---------------------------------------------------------------------------
(* Lane: the spawn schedulers *)

\* for car in self.cars: car.x += car.speed * dt
MoveCars(cars, dt) ==
    [i \in 1..Len(cars) |->
        [cars[i] EXCEPT !.x = @ + cars[i].speed * dt, !.age = @ + dt]]

\* self.cars = [c for c in self.cars if c.x < SCREEN_W + c.w + TILE * 3]
KeepCar(c) == c.x < (SCREEN_W + TILE * 3) * 1000 + c.w

\* min(self.cars, key=lambda c: c.x).x
LeftmostX(occupants) == SetMin({ occupants[i].x : i \in 1..Len(occupants) })

\* max(self.logs, key=lambda l: l.x + l.w): its x + w
RightmostEnd(occupants) ==
    SetMax({ occupants[i].x + occupants[i].w : i \in 1..Len(occupants) })

\* Lane._calc_next_road_spawn_time; gap_tiles and jitter are its draws
calc_next_road_spawn_time(lane, gap_tiles, jitter) ==
    LET gap_px == gap_tiles * TILE
        base_time == gap_px \div Max(1, lane.road_speed)
    IN  Max(280, base_time + jitter)

\* Lane._spawn_car_offscreen_left; kind, w and off are its draws (the
\* palette is only drawn)
spawn_car_offscreen_left(lane, kind, w, off) ==
    [lane EXCEPT !.cars = Append(@, Car(-w - off, w, lane.road_speed, kind))]

\* update_road with the timer set to zero when the spawn is put off
RoadRejectsSpawn(lane, dt, d) ==
    LET cars == SelectSeq(MoveCars(lane.cars, dt), KeepCar)
        timer == lane.road_spawn_timer + dt
        moved == [lane EXCEPT !.cars = cars, !.road_spawn_timer = timer,
                              !.deferred = FALSE]
    IN  IF timer >= lane.road_next_spawn_time
        THEN IF cars # <<>> /\ LeftmostX(cars) < d.clear
             THEN [moved EXCEPT !.road_spawn_timer = 0, !.deferred = TRUE]
             ELSE [spawn_car_offscreen_left(moved, d.kind, d.w, d.off)
                     EXCEPT !.road_spawn_timer = 0,
                            !.road_next_spawn_time =
                                calc_next_road_spawn_time(moved, d.gap, d.jitter)]
        ELSE moved

\* Lane.update_road.  d holds the draws: clear (required_clear_px), kind,
\* w, off, gap, jitter
update_road(lane, dt, d) ==
    LET cars == SelectSeq(MoveCars(lane.cars, dt), KeepCar)
        timer == lane.road_spawn_timer + dt
        moved == [lane EXCEPT !.cars = cars, !.road_spawn_timer = timer,
                              !.deferred = FALSE]
    IN  IF timer >= lane.road_next_spawn_time
        THEN IF cars # <<>> /\ LeftmostX(cars) < d.clear
             THEN [moved EXCEPT !.road_spawn_timer =
                                    Min(timer, lane.road_next_spawn_time - 150),
                                !.deferred = TRUE]
             ELSE [spawn_car_offscreen_left(moved, d.kind, d.w, d.off)
                     EXCEPT !.road_spawn_timer = 0,
                            !.road_next_spawn_time =
                                calc_next_road_spawn_time(moved, d.gap, d.jitter)]
        ELSE moved

\* for log in self.logs: log.x += log.speed * log.dir * dt
MoveLogs(logs, dt) ==
    [i \in 1..Len(logs) |->
        [logs[i] EXCEPT !.x = @ + logs[i].speed * logs[i].dir * dt, !.age = @ + dt]]

\* the filter of update_river_logs
KeepLog(log) ==
    IF log.dir = 1
    THEN log.x < (SCREEN_W + TILE * 3) * 1000 + log.w
    ELSE log.x + log.w > -(TILE * 3) * 1000

\* update_river_logs spawning on every call
SpawnLogEveryTick(lane, dt, d) ==
    [spawn_log_offscreen([lane EXCEPT !.logs = SelectSeq(MoveLogs(@, dt), KeepLog)],
                         d.w, d.buffer)
       EXCEPT !.log_spawn_timer = 0, !.deferred = FALSE]

\* update_river_logs without the clearance test
LogSpawnsUnchecked(lane, dt, d) ==
    LET logs == SelectSeq(MoveLogs(lane.logs, dt), KeepLog)
        timer == lane.log_spawn_timer + dt
        moved == [lane EXCEPT !.logs = logs, !.log_spawn_timer = timer,
                              !.deferred = FALSE]
    IN  IF timer >= lane.log_next_spawn_time
        THEN [spawn_log_offscreen(moved, d.w, d.buffer)
                EXCEPT !.log_spawn_timer = 0,
                       !.log_next_spawn_time =
                           calc_next_log_spawn_time(moved, d.gap, d.jitter)]
        ELSE moved

\* Lane.update_river_logs.  d holds the draws: clear (the uniform of the
\* clearance test), w, buffer, gap, jitter
update_river_logs(lane, dt, d) ==
    LET logs == SelectSeq(MoveLogs(lane.logs, dt), KeepLog)
        timer == lane.log_spawn_timer + dt
        moved == [lane EXCEPT !.logs = logs, !.log_spawn_timer = timer,
                              !.deferred = FALSE]
        blocked ==
            /\ logs # <<>>
            /\ IF lane.log_dir = 1
               THEN LeftmostX(logs) < d.clear
               ELSE RightmostEnd(logs) > SCREEN_W * 1000 - d.clear
    IN  IF timer >= lane.log_next_spawn_time
        THEN IF blocked
             THEN [moved EXCEPT !.log_spawn_timer =
                                    Min(timer, lane.log_next_spawn_time - 120),
                                !.deferred = TRUE]
             ELSE [spawn_log_offscreen(moved, d.w, d.buffer)
                     EXCEPT !.log_spawn_timer = 0,
                            !.log_next_spawn_time =
                                calc_next_log_spawn_time(moved, d.gap, d.jitter)]
        ELSE moved

\* The draws of one update_road / update_river_logs call
RoadUpdateDraws(D) ==
    { [clear |-> c, kind |-> k.kind, w |-> k.w, off |-> o, gap |-> g, jitter |-> j] :
        c \in D.car_clears, k \in D.car_kinds, o \in D.car_offs,
        g \in D.car_gaps, j \in D.car_jitters }

LogUpdateDraws(D) ==
    [clear : D.log_clears, w : D.log_widths, buffer : D.log_buffers,
     gap : D.log_gaps, jitter : D.log_jitters]

\* Lane.update: every lane it can leave
LaneUpdate(lane, dt, D) ==
    IF lane.type = "road"
    THEN { update_road(lane, dt, d) : d \in RoadUpdateDraws(D) }
    ELSE IF lane.type = "river" /\ lane.river_mode = "logs"
    THEN { update_river_logs(lane, dt, d) : d \in LogUpdateDraws(D) }
    ELSE { lane }

---------------------------------------------------------------------------
(* World *)

\* self._grass_since_hazard += 1
GrassInc(v) == IF v >= GrassCap THEN v ELSE v + 1

\* World.__init__
WorldNew ==
    [lanes |-> <<>>, min_row |-> 0, max_row |-> 0,
     consec_roads |-> 0, grass_since_hazard |-> 999,
     river_modes_queue |-> <<>>, river_route_col |-> NoCol]

\* World._start_river_segment; length and start are its random.choice draws
start_river_segment(w, length, start) ==
    [w EXCEPT !.river_modes_queue =
                  IF length = 2 THEN <<"pads", "logs">> ELSE <<"pads", "logs", "pads">>,
              !.river_route_col = Max(0, Min(COLS - 1, COLS \div 2 + start))]

\* _choose_lane with a road rule that leaves _grass_since_hazard alone
ChooseRoadKeepsGrass(w, d) ==
    IF w.river_modes_queue # <<>> THEN
        LET rc == Max(0, Min(COLS - 1, w.river_route_col + d.drift))
        IN  [w |-> [w EXCEPT !.river_modes_queue = Tail(@),
                             !.river_route_col = rc,
                             !.grass_since_hazard = 0,
                             !.consec_roads = 0],
             type |-> "river", mode |-> Head(w.river_modes_queue), route_col |-> rc,
             rule |-> "queue"]
    ELSE IF w.grass_since_hazard < MIN_GRASS_BETWEEN_HAZARDS THEN
        [w |-> [w EXCEPT !.grass_since_hazard = GrassInc(@), !.consec_roads = 0],
         type |-> "grass", mode |-> "none", route_col |-> NoCol, rule |-> "buffer"]
    ELSE IF w.consec_roads >= MAX_CONSEC_ROADS THEN
        [w |-> [w EXCEPT !.consec_roads = 0, !.grass_since_hazard = 0],
         type |-> "grass", mode |-> "none", route_col |-> NoCol, rule |-> "cap"]
    ELSE IF d.roll < PROB_RIVER_START THEN
        LET w1 == start_river_segment(w, d.length, d.start)
        IN  [w |-> [w1 EXCEPT !.river_modes_queue = Tail(@),
                              !.grass_since_hazard = 0,
                              !.consec_roads = 0],
             type |-> "river", mode |-> Head(w1.river_modes_queue),
             route_col |-> w1.river_route_col, rule |-> "river"]
    ELSE IF d.roll < PROB_RIVER_START + PROB_ROAD THEN
        [w |-> [w EXCEPT !.consec_roads = @ + 1],
         type |-> "road", mode |-> "none", route_col |-> NoCol, rule |-> "road"]
    ELSE
        [w |-> [w EXCEPT !.consec_roads = 0, !.grass_since_hazard = GrassInc(@)],
         type |-> "grass", mode |-> "none", route_col |-> NoCol, rule |-> "grass"]

\* World._choose_lane; d holds the draws drift, roll, length, start.
\* The result is the world after the call, the returned triple, and the
\* rule of the method that returned it.
choose_lane(w, d) ==
    IF w.river_modes_queue # <<>> THEN
        LET rc == Max(0, Min(COLS - 1, w.river_route_col + d.drift))
        IN  [w |-> [w EXCEPT !.river_modes_queue = Tail(@),
                             !.river_route_col = rc,
                             !.grass_since_hazard = 0,
                             !.consec_roads = 0],
             type |-> "river", mode |-> Head(w.river_modes_queue), route_col |-> rc,
             rule |-> "queue"]
    ELSE IF w.grass_since_hazard < MIN_GRASS_BETWEEN_HAZARDS THEN
        [w |-> [w EXCEPT !.grass_since_hazard = GrassInc(@), !.consec_roads = 0],
         type |-> "grass", mode |-> "none", route_col |-> NoCol, rule |-> "buffer"]
    ELSE IF w.consec_roads >= MAX_CONSEC_ROADS THEN
        [w |-> [w EXCEPT !.consec_roads = 0, !.grass_since_hazard = 0],
         type |-> "grass", mode |-> "none", route_col |-> NoCol, rule |-> "cap"]
    ELSE IF d.roll < PROB_RIVER_START THEN
        LET w1 == start_river_segment(w, d.length, d.start)
        IN  [w |-> [w1 EXCEPT !.river_modes_queue = Tail(@),
                              !.grass_since_hazard = 0,
                              !.consec_roads = 0],
             type |-> "river", mode |-> Head(w1.river_modes_queue),
             route_col |-> w1.river_route_col, rule |-> "river"]
    ELSE IF d.roll < PROB_RIVER_START + PROB_ROAD THEN
        [w |-> [w EXCEPT !.consec_roads = @ + 1, !.grass_since_hazard = 0],
         type |-> "road", mode |-> "none", route_col |-> NoCol, rule |-> "road"]
    ELSE
        [w |-> [w EXCEPT !.consec_roads = 0, !.grass_since_hazard = GrassInc(@)],
         type |-> "grass", mode |-> "none", route_col |-> NoCol, rule |-> "grass"]

\* The draws of one _choose_lane call for row r: random.choice([-1,0,0,1]),
\* random.random(), random.choice([2,3]), random.choice([-1,0,1]).  The roll
\* is one of zone.rolls for the rows zone.lo .. zone.hi and in the grass band
\* for every other row; drift, length and start are drawn from zone.drifts,
\* zone.lengths and zone.starts.  A draw the call does not make is fixed, so
\* that one call is one record.
ChooseDraws(w, r, zone) ==
    LET queued == w.river_modes_queue # <<>>
        rolled == /\ ~queued
                  /\ w.grass_since_hazard >= MIN_GRASS_BETWEEN_HAZARDS
                  /\ w.consec_roads < MAX_CONSEC_ROADS
        rolls == IF r \in zone.lo..zone.hi THEN zone.rolls ELSE {90}
    IN  { d \in [drift : zone.drifts \cup {0},
                 roll : rolls \cup {90},
                 length : zone.lengths \cup {2},
                 start : zone.starts \cup {0}] :
            /\ IF queued THEN d.drift \in zone.drifts ELSE d.drift = 0
            /\ IF rolled THEN d.roll \in rolls ELSE d.roll = 90
            /\ IF rolled /\ d.roll < PROB_RIVER_START
               THEN d.length \in zone.lengths /\ d.start \in zone.starts
               ELSE d.length = 2 /\ d.start = 0 }

\* lanes[r] = lane
PutLane(lanes, r, lane) == (r :> lane) @@ lanes

\* One policy-made row: lane_type, river_mode, route_col = _choose_lane();
\* lanes[r] = Lane(r, ...).  Every world this can give.
PolicyRow(w, r, zone, D) ==
    UNION { { [c.w EXCEPT !.lanes = PutLane(@, r, lane)] :
                 lane \in Lanes(r, c.type, c.mode, c.route_col, D) } :
            c \in { choose_lane(w, d) : d \in ChooseDraws(w, r, zone) } }

\* lanes[r] = Lane(r, "grass", None, None)
GrassRow(w, r) ==
    [w EXCEPT !.lanes = PutLane(@, r, LaneFields(r, "grass", "none", NoCol))]

\* the for loop of World.reset from row r on
RECURSIVE ResetRows(_, _, _, _)
ResetRows(w, r, zone, D) ==
    IF r > w.max_row THEN {w}
    ELSE IF r <= 1 THEN ResetRows(GrassRow(w, r), r + 1, zone, D)
    ELSE UNION { ResetRows(w2, r + 1, zone, D) : w2 \in PolicyRow(w, r, zone, D) }

\* reset without the four assignments to the lane-policy state
ResetKeepsPolicy(w, zone, D) ==
    ResetRows([w EXCEPT !.lanes = <<>>, !.min_row = -6, !.max_row = 18],
              -6, zone, D)

\* World.reset: every world it can leave
reset(w, zone, D) ==
    ResetRows([w EXCEPT !.lanes = <<>>, !.min_row = -6, !.max_row = 18,
                        !.consec_roads = 0, !.grass_since_hazard = 999,
                        !.river_modes_queue = <<>>, !.river_route_col = NoCol],
              -6, zone, D)

\* world = World(); world.reset(), as main() starts
WorldReset(zone, D) == reset(WorldNew, zone, D)

\* while self.max_row < target_max
RECURSIVE ExtendHigh(_, _, _, _)
ExtendHigh(w, target_max, zone, D) ==
    IF w.max_row < target_max
    THEN UNION { ExtendHigh(w2, target_max, zone, D) :
                   w2 \in PolicyRow([w EXCEPT !.max_row = @ + 1], w.max_row + 1, zone, D) }
    ELSE {w}

\* the second while loop making road rows and counting them
RECURSIVE ExtendLowRoads(_, _)
ExtendLowRoads(w, target_min) ==
    IF w.min_row > target_min
    THEN ExtendLowRoads(
             [w EXCEPT !.min_row = @ - 1,
                       !.consec_roads = 1,
                       !.lanes = PutLane(@, w.min_row - 1,
                                         LaneFields(w.min_row - 1, "road", "none", NoCol))],
             target_min)
    ELSE w

\* while self.min_row > target_min
RECURSIVE ExtendLow(_, _)
ExtendLow(w, target_min) ==
    IF w.min_row > target_min
    THEN ExtendLow(GrassRow([w EXCEPT !.min_row = @ - 1], w.min_row - 1), target_min)
    ELSE w

\* the slack left out of the prune bounds
PruneTight(lanes, player_row) ==
    { r \in DOMAIN lanes : r < player_row - 6 \/ r > player_row + 10 }

\* the prune bounds taken on the wrong side of the agent row
PruneSwapped(lanes, player_row) ==
    { r \in DOMAIN lanes : \/ r < player_row - (SAFE_MARGIN_ROWS + 10)
                           \/ r > player_row + (SAFE_MARGIN_ROWS + 6) }

\* the rows the prune loop of ensure_rows deletes

PruneRows(lanes, player_row) ==
    LET prune_below == player_row - (SAFE_MARGIN_ROWS + 6)
        prune_above == player_row + (SAFE_MARGIN_ROWS + 10)
    IN  { r \in DOMAIN lanes : r < prune_below \/ r > prune_above }

\* del self.lanes[r] for the rows of gone, then
\* self.min_row = min(self.lanes.keys()); self.max_row = max(self.lanes.keys())
DeleteRows(w, gone) ==
    [w EXCEPT !.lanes = [r \in DOMAIN w.lanes \ gone |-> w.lanes[r]],
              !.min_row = SetMin(DOMAIN w.lanes \ gone),
              !.max_row = SetMax(DOMAIN w.lanes \ gone)]

\* World.ensure_rows(player_row): every outcome, with the rows the call
\* created and the rows it pruned
ensure_rows(w, player_row, zone, D) ==
    { [world |-> DeleteRows(w2, PruneRows(w2.lanes, player_row)),
       created |-> DOMAIN w2.lanes \ DOMAIN w.lanes,
       pruned |-> PruneRows(w2.lanes, player_row)] :
      w2 \in { ExtendLow(w1, player_row - SAFE_MARGIN_ROWS) :
                 w1 \in ExtendHigh(w, player_row + SAFE_MARGIN_ROWS, zone, D) } }

\* World.update over the rows of todo: every lanes it can leave (Lane.update
\* changes road rows and logs rows only)
RECURSIVE UpdateRows(_, _, _, _)
UpdateRows(lanes, todo, dt, D) ==
    IF todo = {} THEN {lanes}
    ELSE UNION { UpdateRows([lanes EXCEPT ![SetMin(todo)] = lane],
                            todo \ {SetMin(todo)}, dt, D) :
                 lane \in LaneUpdate(lanes[SetMin(todo)], dt, D) }

\* World.update
WorldUpdate(lanes, dt, D) ==
    UpdateRows(lanes,
               { r \in DOMAIN lanes :
                   \/ lanes[r].type = "road"
                   \/ lanes[r].type = "river" /\ lanes[r].river_mode = "logs" },
               dt, D)

\* World.lane_at: lanes.get(row); the result is read only when the row exists
HasLane(lanes, row) == row \in DOMAIN lanes

---------------------------------------------------------------------------
(* Player *)

\* Player.reset
PlayerReset ==
    LET x0 == ((COLS \div 2) * TILE + TILE \div 2) * 1000
    IN  [x |-> x0, row |-> 0, dead |-> FALSE, moving |-> FALSE,
         start_x |-> x0, start_row |-> 0, target_x |-> x0, target_row |-> 0,
         t |-> FZero, max_row |-> 0]

\* Player.current_col: int(self.x // TILE)
current_col(pl) == pl.x \div (TILE * 1000)

\* try_move without the bound on the row
TryMoveNoRowBound(pl, dcol, drow) ==
    IF pl.dead \/ pl.moving THEN pl
    ELSE IF current_col(pl) + dcol < 0 \/ current_col(pl) + dcol >= COLS THEN pl
    ELSE [pl EXCEPT !.moving = TRUE, !.t = FZero,
                    !.start_x = pl.x, !.start_row = pl.row,
                    !.target_x = ((current_col(pl) + dcol) * TILE + TILE \div 2) * 1000,
                    !.target_row = pl.row + drow]

\* try_move without the test of dead
TryMoveWhenDead(pl, dcol, drow) ==
    IF pl.moving THEN pl
    ELSE IF current_col(pl) + dcol < 0 \/ current_col(pl) + dcol >= COLS THEN pl
    ELSE IF pl.row + drow < -3 THEN pl
    ELSE [pl EXCEPT !.moving = TRUE, !.t = FZero,
                    !.start_x = pl.x, !.start_row = pl.row,
                    !.target_x = ((current_col(pl) + dcol) * TILE + TILE \div 2) * 1000,
                    !.target_row = pl.row + drow]

\* Player.try_move
try_move(pl, dcol, drow) ==
    LET new_col == current_col(pl) + dcol
        new_row == pl.row + drow
    IN  IF pl.dead \/ pl.moving THEN pl
        ELSE IF new_col < 0 \/ new_col >= COLS THEN pl
        ELSE IF new_row < -3 THEN pl
        ELSE [pl EXCEPT !.moving = TRUE, !.t = FZero,
                        !.start_x = pl.x, !.start_row = pl.row,
                        !.target_x = (new_col * TILE + TILE \div 2) * 1000,
                        !.target_row = new_row]

\* Player.update
update(pl, dt) ==
    IF pl.dead THEN pl
    ELSE IF pl.moving
    THEN IF FAtLeastOne(FAdd(pl.t, DtOverHop(dt)))
         THEN [pl EXCEPT !.t = FOne, !.moving = FALSE,
                         !.x = pl.target_x, !.row = pl.target_row,
                         !.max_row = IF pl.target_row > @ THEN pl.target_row ELSE @]
         ELSE [pl EXCEPT !.t = FAdd(@, DtOverHop(dt))]
    ELSE pl

\* lerp(a, b, t) for t in thousandths
lerp(a, b, t) == a + ((b - a) * t) \div 1000

\* ease = t * t * (3 - 2 * t), for t and ease in thousandths
Ease(t) == (((t * t) \div 1000) * (3000 - 2 * t)) \div 1000

\* Player.world_pos, in thousandths of a pixel.  For a moving agent the
\* arc sin(ease * pi) * TILE * 0.18 (0 to 8.64 px, added to y) is left out:
\* main() reads the position of a moving agent only to draw it.
world_pos(pl) ==
    IF ~pl.moving
    THEN [x |-> pl.x, y |-> (pl.row * TILE + TILE \div 2) * 1000]
    ELSE [x |-> lerp(pl.start_x, pl.target_x, Ease(clamp(FMilli(pl.t), 0, 1000))),
          y |-> lerp((pl.start_row * TILE + TILE \div 2) * 1000,
                     (pl.target_row * TILE + TILE \div 2) * 1000,
                     Ease(clamp(FMilli(pl.t), 0, 1000)))]

\* pygame.Rect(left, top, width, height), in whole pixels
Rect(left, top, width, height) ==
    [left |-> left, top |-> top, right |-> left + width, bottom |-> top + height]

\* pygame.Rect.colliderect
colliderect(a, b) ==
    /\ a.left < b.right /\ b.left < a.right
    /\ a.top < b.bottom /\ b.top < a.bottom

\* Player.hitbox_world
hitbox_world(pl) ==
    Rect(PyInt(world_pos(pl).x - (PLAYER_SIZE \div 2) * 1000),
         PyInt(world_pos(pl).y - (PLAYER_SIZE \div 2) * 1000),
         PLAYER_SIZE, PLAYER_SIZE)

\* Car.rect_world: y_top = lane_y_world + (TILE - CAR_H) * 0.5
car_rect_world(car, lane_y_world) ==
    Rect(PyInt(car.x), PyInt(lane_y_world * 1000 + (TILE - CAR_H) * 500),
         PyInt(car.w), CAR_H)

\* Log.rect_world: y_top = lane_y_world + TILE * 0.5 - LOG_H * 0.5
log_rect_world(log, lane_y_world) ==
    Rect(PyInt(log.x), PyInt(lane_y_world * 1000 + TILE * 500 - LOG_H * 500),
         PyInt(log.w), LOG_H)

---------------------------------------------------------------------------
(* main(): hazard resolution *)

\* (pad_r * 0.92) ** 2 for pad_r = TILE * 0.34, in square thousandths of a
\* pixel: 15014.4 ** 2, rounded down
PadCapture2 == 225432207

\* the capture test with a radius of one tile
OnPadWithinTile(px, py, cx, cy) ==
    /\ Abs(px - cx) <= TILE * 1000
    /\ Abs(py - cy) <= TILE * 1000

\* (px - cx) ** 2 + (py - cy) ** 2 <= (pad_r * 0.92) ** 2; an offset beyond
\* 16 px is decided without squaring it
OnPad(px, py, cx, cy) ==
    /\ Abs(px - cx) <= 16000
    /\ Abs(py - cy) <= 16000
    /\ (px - cx) * (px - cx) + (py - cy) * (py - cy) <= PadCapture2

\* the index of the first log the hitbox collides with, 0 when there is none
FirstLog(lane, hb) ==
    LET hits == { i \in 1..Len(lane.logs) :
                    colliderect(hb, log_rect_world(lane.logs[i], lane.row * TILE)) }
    IN  IF hits = {} THEN 0 ELSE SetMin(hits)

\* the road branch: for car in lane.cars: if hb.colliderect(...): dead
RoadHit(pl, lane) ==
    \E i \in 1..Len(lane.cars) :
        colliderect(hitbox_world(pl), car_rect_world(lane.cars[i], lane.row * TILE))

\* the pads branch with cx, cy the corner of the cell
PadHitCorner(pl, lane) ==
    \E i \in 1..Len(lane.lilypads) :
        OnPad(world_pos(pl).x, world_pos(pl).y,
              lane.lilypads[i] * TILE * 1000, lane.row * TILE * 1000)

\* the pads branch: on_platform
PadHit(pl, lane) ==
    \E i \in 1..Len(lane.lilypads) :
        OnPad(world_pos(pl).x, world_pos(pl).y,
              lane.lilypads[i] * TILE * 1000 + TILE * 500,
              lane.row * TILE * 1000 + TILE * 500)

\* the logs branch with a platform that does not carry
LogHoldsStill(pl, lane, dt) ==
    IF FirstLog(lane, hitbox_world(pl)) = 0 THEN [pl EXCEPT !.dead = TRUE]
    ELSE [pl EXCEPT !.dead = (pl.x < 0 \/ pl.x > SCREEN_W * 1000)]

\* the logs branch and the lines after it: carry, then the edge test
LogCarry(pl, lane, dt) ==
    LET i == FirstLog(lane, hitbox_world(pl))
        carry_dx == lane.logs[i].speed * lane.logs[i].dir * dt
        x2 == IF carry_dx # 0 THEN pl.x + carry_dx ELSE pl.x
    IN  IF i = 0 THEN [pl EXCEPT !.dead = TRUE]
        ELSE [pl EXCEPT !.x = x2, !.dead = (x2 < 0 \/ x2 > SCREEN_W * 1000)]

\* hazard resolution that does not ask whether the agent is moving
ResolveMidHop(pl, lane, dt) ==
    IF lane.type = "road"
    THEN (IF RoadHit(pl, lane) THEN [pl EXCEPT !.dead = TRUE] ELSE pl)
    ELSE IF lane.type = "river"
    THEN IF lane.river_mode = "pads"
         THEN (IF PadHit(pl, lane)
               THEN [pl EXCEPT !.dead = (pl.x < 0 \/ pl.x > SCREEN_W * 1000)]
               ELSE [pl EXCEPT !.dead = TRUE])
         ELSE IF lane.river_mode = "logs" THEN LogCarry(pl, lane, dt)
         ELSE [pl EXCEPT !.dead = TRUE]
    ELSE pl

\* the body of "if lane:" in main(), for a live agent on the row of lane
Resolve(pl, lane, dt) ==
    IF lane.type = "road"
    THEN (IF ~pl.moving /\ RoadHit(pl, lane) THEN [pl EXCEPT !.dead = TRUE] ELSE pl)
    ELSE IF lane.type = "river"
    THEN IF pl.moving THEN pl
         ELSE IF lane.river_mode = "pads"
         THEN (IF PadHit(pl, lane)
               THEN [pl EXCEPT !.dead = (pl.x < 0 \/ pl.x > SCREEN_W * 1000)]
               ELSE [pl EXCEPT !.dead = TRUE])
         ELSE IF lane.river_mode = "logs" THEN LogCarry(pl, lane, dt)
         ELSE [pl EXCEPT !.dead = TRUE]
    ELSE pl

\* a frame without the hazards block
HazardsSkipped(pl, lanes, dt) == pl

\* the hazards block without the tests of player.moving
HazardsMidHop(pl, lanes, dt) ==
    IF pl.dead \/ ~HasLane(lanes, pl.row) THEN pl
    ELSE ResolveMidHop(pl, lanes[pl.row], dt)

\* the hazards block of main(): if not player.dead: lane = world.lane_at(...)
Hazards(pl, lanes, dt) ==
    IF pl.dead \/ ~HasLane(lanes, pl.row) THEN pl
    ELSE Resolve(pl, lanes[pl.row], dt)

---------------------------------------------------------------------------
(* State *)

VARIABLES
    world,       \* the World object
    player_row,  \* the argument of the last ensure_rows call
    created,     \* the rows the last ensure_rows call created
    pruned,      \* the rows the last ensure_rows call deleted
    last_call,   \* "init", "reset" or "ensure_rows"; in SpecPads "lane", in
                 \* SpecPolicy the rule the last _choose_lane call took
    player,      \* the Player object
    running,     \* the loop variable of main()
    frame,       \* the number of frames main() has run
    last_dt,     \* the dt of the last frame
    hz,          \* the Player as the hazards block of the last frame found it
    tm,          \* the try_move call of the last step, if it made one: its
                 \* arguments, the Player before and the Player after
    hop_ms,      \* the dt of the ticks since the last accepted try_move,
                 \* summed in milliseconds
    restarted    \* the last step called player.reset()

vars == <<world, player_row, created, pruned, last_call,
          player, running, frame, last_dt, hz, tm, hop_ms, restarted>>

\* try_move accepted the request
Accepted(pl, dcol, drow) == ~pl.moving /\ try_move(pl, dcol, drow).moving

\* the milliseconds a tick of dt adds to the hop of pl
HopTick(pl, dt) == IF pl.moving /\ ~pl.dead THEN dt ELSE 0

NoTry == [called |-> FALSE, dcol |-> 0, drow |-> 0, pre |-> PlayerReset, post |-> PlayerReset]

Try(pl, dcol, drow) ==
    [called |-> TRUE, dcol |-> dcol, drow |-> drow, pre |-> pl, post |-> try_move(pl, dcol, drow)]

---------------------------------------------------------------------------
(* SpecWorld: the World object under the calls main() makes on it:         *)
(* reset, then ensure_rows(player.row) once per frame, where player.row    *)
(* changes by at most one row per landing and never goes below -3.  The    *)
(* agent is the argument of ensure_rows here; the Player object rests.     *)

WorldZone ==
    [lo |-> ZoneLo, hi |-> ZoneHi, rolls |-> {10, 50, 90},
     drifts |-> {-1, 0, 1}, lengths |-> {2, 3}, starts |-> {-1, 0}]

Identity == [i \in 1..COLS |-> i - 1]

Reversed == [i \in 1..COLS |-> COLS - i]

WorldDraws ==
    [car_speeds |-> {CAR_MIN_SPEED},
     first_spawn |-> {350},
     shuffles |-> {Reversed},
     extras |-> {2},
     log_dirs |-> {1},
     log_speeds |-> {LOG_MIN_SPEED},
     seeds |-> {FALSE},
     log_widths |-> {LOG_MIN_W * 1000},
     log_buffers |-> {(TILE * 600)},
     log_gaps |-> {LOG_GAP_MIN_TILES},
     log_jitters |-> {0}]

WInit ==
    /\ world = WorldNew
    /\ player_row = 0
    /\ created = {}
    /\ pruned = {}
    /\ last_call = "init"
    /\ player = PlayerReset
    /\ running = TRUE
    /\ frame = 0
    /\ last_dt = 0
    /\ hz = PlayerReset
    /\ tm = NoTry
    /\ hop_ms = 0
    /\ restarted = FALSE

\* world.reset(), as main() calls it: at start-up and on restart, together
\* with player.reset(), which puts the agent on row 0
ResetCall(worlds) ==
    /\ world' \in worlds
    /\ player_row' = 0
    /\ created' = {}
    /\ pruned' = {}
    /\ last_call' = "reset"
    /\ player' = PlayerReset
    /\ hop_ms' = 0
    /\ restarted' = TRUE
    /\ UNCHANGED <<running, frame, last_dt, hz, tm>>

\* world.ensure_rows(player.row), for a row p one hop from the last one
EnsureRowsCall(p, zone, D) ==
    /\ last_call # "init"
    /\ p >= -3
    /\ \E out \in ensure_rows(world, p, zone, D) :
         /\ world' = out.world
         /\ created' = out.created
         /\ pruned' = out.pruned
    /\ player_row' = p
    /\ last_call' = "ensure_rows"
    /\ restarted' = FALSE
    /\ UNCHANGED <<player, running, frame, last_dt, hz, tm, hop_ms>>

WResetWorlds == WorldReset(WorldZone, WorldDraws)

WReset == ResetCall(WResetWorlds)

WEnsureRows ==
    \E p \in {player_row - 1, player_row, player_row + 1} :
        p <= MaxRow /\ EnsureRowsCall(p, WorldZone, WorldDraws)

WNext == WReset \/ WEnsureRows

SpecWorld == WInit /\ [][WNext]_vars

---------------------------------------------------------------------------
(* SpecRoads: SpecWorld with the roll drawn from the road and grass bands  *)
(* over a zone of four rows.                                               *)

RoadZone ==
    [lo |-> RoadZoneLo, hi |-> RoadZoneHi, rolls |-> {50, 90},
     drifts |-> {0}, lengths |-> {2}, starts |-> {0}]

RResetWorlds == WorldReset(RoadZone, WorldDraws)

RReset == ResetCall(RResetWorlds)

REnsureRows ==
    \E p \in {player_row - 1, player_row, player_row + 1} :
        p <= RoadMaxRow /\ EnsureRowsCall(p, RoadZone, WorldDraws)

RNext == RReset \/ REnsureRows

SpecRoads == WInit /\ [][RNext]_vars

---------------------------------------------------------------------------
(* SpecRetreat: SpecWorld with a hazard on row 2 and an agent that walks   *)
(* far enough up for rows 2 and 3 to be pruned, and back down for them to  *)
(* be created again.                                                       *)

RetreatZone ==
    [lo |-> 2, hi |-> 2, rolls |-> {10, 50},
     drifts |-> {0}, lengths |-> {2, 3}, starts |-> {0}]

RetreatWorlds == WorldReset(RetreatZone, WorldDraws)

TReset == ResetCall(RetreatWorlds)

TEnsureRows ==
    \E p \in {player_row - 1, player_row, player_row + 1} :
        p <= RetreatMaxRow /\ EnsureRowsCall(p, RetreatZone, WorldDraws)

TNext == TReset \/ TEnsureRows

SpecRetreat == WInit /\ [][TNext]_vars

---------------------------------------------------------------------------
(* SpecPlayer: the Player object under its own methods, with the write     *)
(* main() makes to player.dead.                                            *)

\* the tick lengths of SpecPlayer
PlayerDts == {12, 120}

PTryMove ==
    \E dcol \in {-1, 0, 1}, drow \in {-1, 0, 1} :
        /\ player.row + drow <= PlayerMaxRow
        /\ player' = try_move(player, dcol, drow)
        /\ tm' = Try(player, dcol, drow)
        /\ hop_ms' = IF Accepted(player, dcol, drow) THEN 0 ELSE hop_ms
        /\ restarted' = FALSE
        /\ UNCHANGED <<world, player_row, created, pruned, last_call,
                       running, frame, last_dt, hz>>

PUpdate ==
    \E dt \in PlayerDts :
        /\ player' = update(player, dt)
        /\ last_dt' = dt
        /\ tm' = NoTry
        /\ hop_ms' = hop_ms + HopTick(player, dt)
        /\ restarted' = FALSE
        /\ UNCHANGED <<world, player_row, created, pruned, last_call,
                       running, frame, hz>>

\* player.dead = True, as the hazards block sets it for an agent at rest
PKill ==
    /\ ~player.moving
    /\ player' = [player EXCEPT !.dead = TRUE]
    /\ tm' = NoTry
    /\ restarted' = FALSE
    /\ UNCHANGED <<world, player_row, created, pruned, last_call,
                   running, frame, last_dt, hz, hop_ms>>

PReset ==
    /\ player' = PlayerReset
    /\ tm' = NoTry
    /\ hop_ms' = 0
    /\ restarted' = TRUE
    /\ UNCHANGED <<world, player_row, created, pruned, last_call,
                   running, frame, last_dt, hz>>

PNext == PTryMove \/ PUpdate \/ PKill \/ PReset

SpecPlayer == WInit /\ [][PNext]_vars

---------------------------------------------------------------------------
(* Spec: main().  Init is the state before the first frame; Frame is one   *)
(* pass of the while loop.                                                 *)

GameZone ==
    [lo |-> GameZoneLo, hi |-> GameZoneHi, rolls |-> {10, 50, 90},
     drifts |-> {0}, lengths |-> {2}, starts |-> {0}]

GameDraws ==
    [car_speeds |-> {CAR_MAX_SPEED},
     first_spawn |-> {350},
     shuffles |-> {Reversed},
     extras |-> {1},
     log_dirs |-> {1},
     log_speeds |-> {LOG_MAX_SPEED},
     seeds |-> {TRUE},
     log_widths |-> {LOG_MIN_W * 1000},
     log_buffers |-> {TILE * 600},
     log_gaps |-> {LOG_GAP_MIN_TILES},
     log_jitters |-> {0},
     car_clears |-> {TILE * 1400},
     car_kinds |-> {[kind |-> "truck", w |-> TILE * 2600]},
     car_offs |-> {TILE * 800},
     car_gaps |-> {GAP_MIN_TILES},
     car_jitters |-> {0},
     log_clears |-> {TILE * 1000}]

\* clock.tick(FPS) / 1000.0
DtSet == {60, 120, 400}

\* pygame.event.get(): the events of one frame
KeySeqs ==
    {<<>>, <<"up">>, <<"down">>, <<"left">>, <<"right">>, <<"restart">>,
     <<"escape">>, <<"quit">>, <<"restart", "up">>}

GResetWorlds == WorldReset(GameZone, GameDraws)

\* the body of the event loop for one event
HandleKey(st, key, zone, D) ==
    IF key = "quit" THEN { [st EXCEPT !.running = FALSE] }
    ELSE IF st.player.dead
    THEN IF key = "restart"
         THEN { [st EXCEPT !.player = PlayerReset, !.world = w,
                           !.hop_ms = 0, !.restarted = TRUE] :
                    w \in reset(st.world, zone, D) }
         ELSE { [st EXCEPT !.running = (key # "escape" /\ @)] }
    ELSE IF key = "escape" THEN { [st EXCEPT !.running = FALSE] }
    ELSE IF key = "up"
    THEN { [st EXCEPT !.player = try_move(@, 0, 1), !.tm = Try(st.player, 0, 1),
                      !.hop_ms = IF Accepted(st.player, 0, 1) THEN 0 ELSE @] }
    ELSE IF key = "down"
    THEN { [st EXCEPT !.player = try_move(@, 0, -1), !.tm = Try(st.player, 0, -1),
                      !.hop_ms = IF Accepted(st.player, 0, -1) THEN 0 ELSE @] }
    ELSE IF key = "left"
    THEN { [st EXCEPT !.player = try_move(@, -1, 0), !.tm = Try(st.player, -1, 0),
                      !.hop_ms = IF Accepted(st.player, -1, 0) THEN 0 ELSE @] }
    ELSE IF key = "right"
    THEN { [st EXCEPT !.player = try_move(@, 1, 0), !.tm = Try(st.player, 1, 0),
                      !.hop_ms = IF Accepted(st.player, 1, 0) THEN 0 ELSE @] }
    ELSE { st }

\* for event in pygame.event.get()
RECURSIVE Events(_, _, _, _)
Events(st, keys, zone, D) ==
    IF keys = <<>> THEN {st}
    ELSE UNION { Events(st2, Tail(keys), zone, D) :
                    st2 \in HandleKey(st, Head(keys), zone, D) }

Init ==
    /\ world \in GResetWorlds
    /\ player_row = 0
    /\ created = {}
    /\ pruned = {}
    /\ last_call = "reset"
    /\ player = PlayerReset
    /\ running = TRUE
    /\ frame = 0
    /\ last_dt = 0
    /\ hz = PlayerReset
    /\ tm = NoTry
    /\ hop_ms = 0
    /\ restarted = FALSE

\* one pass of the loop: events, ensure_rows, world.update, player.update,
\* hazards; the events are one of keyseqs, dt is one of dts, and the
\* random draws are those of zone and D
FrameOf(zone, D, keyseqs, dts, frames) ==
    /\ running
    /\ frame < frames
    /\ \E keys \in keyseqs :
       \E st \in Events([player |-> player, world |-> world,
                         running |-> running, tm |-> NoTry,
                         hop_ms |-> hop_ms, restarted |-> FALSE], keys, zone, D) :
       \E out \in ensure_rows(st.world, st.player.row, zone, D) :
       \E dt \in dts :
       \E lanes \in WorldUpdate(out.world.lanes, dt, D) :
          /\ world' = [out.world EXCEPT !.lanes = lanes]
          /\ player' = Hazards(update(st.player, dt), lanes, dt)
          /\ hz' = update(st.player, dt)
          /\ tm' = st.tm
          /\ hop_ms' = st.hop_ms + HopTick(st.player, dt)
          /\ restarted' = st.restarted
          /\ running' = st.running
          /\ player_row' = st.player.row
          /\ created' = out.created
          /\ pruned' = out.pruned
          /\ last_call' = "ensure_rows"
          /\ last_dt' = dt
          /\ frame' = frame + 1

Frame == FrameOf(GameZone, GameDraws, KeySeqs, DtSet, MaxFrames)

Next == Frame

Spec == Init /\ [][Next]_vars

---------------------------------------------------------------------------
(* SpecScene: main() again, on a world whose rows 2 and 3 are a river      *)
(* segment (pads on columns 5, 2 and 7, then logs drifting right at 80     *)
(* px/s) and whose other rows are grass, with frames of 0.1 s, long enough *)
(* for a log to cross the screen with the agent on it.                     *)

\* random.shuffle(cols) putting columns 2 and 7 first
PadsShuffle == <<2, 7, 0, 1, 3, 4, 5, 6, 8, 9>>

SceneZone ==
    [lo |-> 2, hi |-> 2, rolls |-> {10},
     drifts |-> {0}, lengths |-> {2}, starts |-> {0}]

SceneDraws ==
    [GameDraws EXCEPT !.shuffles = {PadsShuffle},
                      !.extras = {2},
                      !.log_speeds = {80},
                      !.log_widths = {LOG_MAX_W * 1000},
                      !.log_buffers = {TILE * 1000}]

\* clock.tick(FPS) / 1000.0
SceneDts == {100}

\* pygame.event.get(): the events of one frame.  The user asks for hops
\* up, left and right while the agent is at rest below row SceneMaxRow,
\* lets the agent ride once it is there, and leaves the game once the agent
\* is dead.
SceneKeys ==
    IF player.dead THEN {<<"escape">>}
    ELSE IF player.moving \/ player.row >= SceneMaxRow THEN {<<>>}
    ELSE {<<>>, <<"up">>, <<"left">>, <<"right">>}

SceneResetWorlds == WorldReset(SceneZone, SceneDraws)

\* the state before the first frame, for a world of worlds
StartOf(worlds) ==
    /\ world \in worlds
    /\ player_row = 0
    /\ created = {}
    /\ pruned = {}
    /\ last_call = "reset"
    /\ player = PlayerReset
    /\ running = TRUE
    /\ frame = 0
    /\ last_dt = 0
    /\ hz = PlayerReset
    /\ tm = NoTry
    /\ hop_ms = 0
    /\ restarted = FALSE

SceneInit == StartOf(SceneResetWorlds)

SceneFrame ==
    FrameOf(SceneZone, SceneDraws, SceneKeys, SceneDts, SceneFrames)

SceneNext == SceneFrame

SpecScene == SceneInit /\ [][SceneNext]_vars

---------------------------------------------------------------------------
(* SpecRestart: main() on a world that is river segments of three rows     *)
(* with one grass row between them from row 2 on, so that a segment is     *)
(* pending at the top of the window when the agent dies and the game is    *)
(* restarted.                                                              *)

RestartZone ==
    [lo |-> 2, hi |-> RestartZoneHi, rolls |-> {10},
     drifts |-> {0}, lengths |-> {3}, starts |-> {0}]

RestartDraws == [GameDraws EXCEPT !.seeds = {FALSE}]

\* clock.tick(FPS) / 1000.0
RestartDts == {120}

\* pygame.event.get(): the events of one frame
RestartKeys ==
    {<<>>, <<"up">>, <<"left">>, <<"restart">>, <<"restart", "up">>}

RestartWorlds == WorldReset(RestartZone, RestartDraws)

RestartInit == StartOf(RestartWorlds)

RestartFrame ==
    FrameOf(RestartZone, RestartDraws, RestartKeys, RestartDts, RestartFrames)

RestartNext == RestartFrame

SpecRestart == RestartInit /\ [][RestartNext]_vars

---------------------------------------------------------------------------
(* SpecLanes: world.update(dt) alone, tick after tick with ticks of        *)
(* several lengths, on a world whose row 2 is a road or whose rows 2 and 3 *)
(* are a river segment.  frame counts the ticks.                           *)

LaneZone ==
    [lo |-> 2, hi |-> 2, rolls |-> {10, 50},
     drifts |-> {0}, lengths |-> {2}, starts |-> {0}]

LaneDraws ==
    [GameDraws EXCEPT !.car_kinds = {[kind |-> "car", w |-> CAR_MIN_W * 1000]},
                      !.car_jitters = {-SPAWN_JITTER, 0},
                      !.log_dirs = {-1, 1},
                      !.log_jitters = {-120},
                      !.car_clears = {TILE * 1400, TILE * 2800},
                      !.log_clears = {TILE * 1000, TILE * 2400}]

\* clock.tick(FPS) / 1000.0
LaneDts == {16, 60, 150, 400}

LaneResetWorlds == WorldReset(LaneZone, LaneDraws)

LaneInit == StartOf(LaneResetWorlds)

\* world.update(dt)
LaneTick ==
    /\ frame < LaneTicks
    /\ \E dt \in LaneDts :
       \E lanes \in WorldUpdate(world.lanes, dt, LaneDraws) :
          /\ world' = [world EXCEPT !.lanes = lanes]
          /\ last_dt' = dt
    /\ frame' = frame + 1
    /\ restarted' = FALSE
    /\ UNCHANGED <<player_row, created, pruned, last_call, player, running,
                   hz, tm, hop_ms>>

LaneNext == LaneTick

SpecLanes == LaneInit /\ [][LaneNext]_vars

---------------------------------------------------------------------------
(* SpecPads: Lane(row, "river", "pads", route_col) alone, for every route  *)
(* column, every target_extra and the shuffles whose first PadsPrefix      *)
(* columns are any distinct columns in any order, the others following in  *)
(* ascending order.  The lane is put at row 2 of an otherwise empty world. *)
(* One behaviour is one construction.                                      *)

\* random.shuffle(cols): the orders with a free head of k columns
ShufflesOf(k) ==
    { [i \in 1..COLS |->
          IF i <= k THEN h[i]
          ELSE LET rest == (0..COLS - 1) \ { h[j] : j \in 1..k }
               IN  CHOOSE c \in rest :
                      Cardinality({ e \in rest : e < c }) = i - k - 1] :
        h \in { g \in [1..k -> 0..COLS - 1] :
                  \A a, b \in 1..k : a # b => g[a] # g[b] } }

PadRowDraws == [shuffles |-> ShufflesOf(PadsPrefix), extras |-> 1..3]

\* self.lanes[2] = Lane(2, "river", "pads", rc)
PadsCall ==
    /\ last_call = "init"
    /\ \E rc \in 0..COLS - 1 :
       \E lane \in Lanes(2, "river", "pads", rc, PadRowDraws) :
          world' = [WorldNew EXCEPT !.lanes = PutLane(<<>>, 2, lane),
                                    !.min_row = 2, !.max_row = 2]
    /\ last_call' = "lane"
    /\ UNCHANGED <<player_row, created, pruned, player, running, frame,
                   last_dt, hz, tm, hop_ms, restarted>>

PadsNext == PadsCall

SpecPads == WInit /\ [][PadsNext]_vars

---------------------------------------------------------------------------
(* SpecPolicy: World._choose_lane alone, call after call on a new World,   *)
(* with every roll band, drift, length and start drawn.  last_call names   *)
(* the rule the last call took and frame counts the calls.                 *)

PolicyZone ==
    [lo |-> 0, hi |-> 0, rolls |-> {10, 50, 90},
     drifts |-> {-1, 0, 1}, lengths |-> {2, 3}, starts |-> {-1, 0, 1}]

\* lane_type, river_mode, route_col = self._choose_lane()
PolicyCall ==
    /\ frame < PolicyCalls
    /\ \E d \in ChooseDraws(world, 0, PolicyZone) :
          /\ world' = choose_lane(world, d).w
          /\ last_call' = choose_lane(world, d).rule
    /\ frame' = frame + 1
    /\ UNCHANGED <<player_row, created, pruned, player, running,
                   last_dt, hz, tm, hop_ms, restarted>>

PolicyNext == PolicyCall

SpecPolicy == WInit /\ [][PolicyNext]_vars

---------------------------------------------------------------------------
(* The window *)

Rows == DOMAIN world.lanes

IsRoad(r) == r \in Rows /\ world.lanes[r].type = "road"

IsRiver(r) == r \in Rows /\ world.lanes[r].type = "river"

IsPads(r) == IsRiver(r) /\ world.lanes[r].river_mode = "pads"

IsLogs(r) == IsRiver(r) /\ world.lanes[r].river_mode = "logs"

IsHazard(r) == IsRoad(r) \/ IsRiver(r)

SeqToSet(q) == { q[i] : i \in 1..Len(q) }

\* a live agent at rest at the centre of column col of row r
AtCentre(r, col) ==
    [PlayerReset EXCEPT !.x = (col * TILE + TILE \div 2) * 1000, !.row = r]

\* an agent landing at the centre of column col of row r survives the
\* hazards block of a frame of dt
LandsSafely(r, col, dt) == ~Hazards(AtCentre(r, col), world.lanes, dt).dead

\* a column of row r where a landing survives
HasSafeColumn(r) ==
    \E col \in 0..(COLS - 1) : \E dt \in DtSet : LandsSafely(r, col, dt)

---------------------------------------------------------------------------
(* Claims *)

\* C1: every Stepping (pads) row of the window holds its own route column
\* among its lilypads, in every reachable state.
C1_PadsHoldRoute ==
    \A r \in Rows :
        IsPads(r) => world.lanes[r].route_col \in SeqToSet(world.lanes[r].lilypads)

\* a pads row that ensure_rows created (World.reset stops at row 18)
C1_Witness ==
    \E r \in Rows : r > 18 /\ IsPads(r) /\ last_call = "ensure_rows"

\* C2: two river rows at adjacent indices have route columns at most one
\* column apart, and every route column of a river row is in 0 .. COLS-1.
C2_RouteContinuity ==
    \A r \in Rows :
        IsRiver(r) =>
            /\ world.lanes[r].route_col \in 0..(COLS - 1)
            /\ IsRiver(r + 1) =>
                  Abs(world.lanes[r].route_col - world.lanes[r + 1].route_col) <= 1

\* C3: in a frame in which the agent is moving after player.update, the
\* hazards block changes neither its x nor its dead flag.
C3_NoResolutionMidHop ==
    (frame > 0 /\ hz.moving) => (player.x = hz.x /\ player.dead = hz.dead)

\* a frame that found the agent in mid-hop from a pads row to a logs row
C3_Witness ==
    /\ frame > 0
    /\ hz.moving
    /\ ~hz.dead
    /\ IsPads(hz.row)
    /\ IsLogs(hz.target_row)

\* C4: every run of river rows in the window is a segment in queue order:
\* a logs row lies directly above a pads row, a pads row above another
\* river row lies above a logs row, the row above the first pads row of a
\* run is a logs row, and no run is longer than three rows.
C4_SegmentsAtomic ==
    \A r \in Rows :
        /\ (IsLogs(r) /\ (r - 1) \in Rows) => IsPads(r - 1)
        /\ (IsPads(r) /\ IsRiver(r - 1)) => IsLogs(r - 1)
        /\ (IsPads(r) /\ (r - 1) \in Rows /\ ~IsRiver(r - 1) /\ (r + 1) \in Rows)
              => IsLogs(r + 1)
        /\ ~(IsRiver(r) /\ IsRiver(r + 1) /\ IsRiver(r + 2) /\ IsRiver(r + 3))

\* C5: a road row is never adjacent to another hazard row, and the row
\* directly above the last row of a river segment (the logs row of a
\* pads-logs segment that no pads row follows, or the third row) is Safe.
C5_NoBackToBack ==
    \A r \in Rows :
        (r + 1) \in Rows =>
            /\ ~(IsRoad(r) /\ IsHazard(r + 1))
            /\ ~(IsRiver(r) /\ IsRoad(r + 1))
            /\ ~(IsLogs(r) /\ IsLogs(r + 1))
            /\ ~(IsPads(r) /\ IsPads(r + 1))
            /\ ~(IsRiver(r - 2) /\ IsRiver(r - 1) /\ IsRiver(r) /\ IsRiver(r + 1))

\* C6: the window never holds more than MAX_CONSEC_ROADS road rows at
\* consecutive row indices.
C6_RoadRunsBounded ==
    \A r \in Rows :
        ~(\A k \in 0..MAX_CONSEC_ROADS : IsRoad(r + k))

\* C7: after every ensure_rows(p) call a row exists for every index in
\* p - SAFE_MARGIN_ROWS .. p + SAFE_MARGIN_ROWS.
C7_WindowCoversMargin ==
    last_call = "ensure_rows" =>
        \A r \in (player_row - SAFE_MARGIN_ROWS)..(player_row + SAFE_MARGIN_ROWS) :
            r \in Rows

\* an ensure_rows call that created a row at the high end
C7_Witness ==
    /\ last_call = "ensure_rows"
    /\ \E r \in created : r = player_row + SAFE_MARGIN_ROWS

\* C8: after ensure_rows(p) no row below p - 24 or above p + 28 remains, no
\* row the call pruned lay in p - 18 .. p + 18, and no row the call created
\* was pruned by it.
C8_PruneOutsideSlack ==
    last_call = "ensure_rows" =>
        /\ \A r \in Rows : /\ r >= player_row - (SAFE_MARGIN_ROWS + 6)
                            /\ r <= player_row + (SAFE_MARGIN_ROWS + 10)
        /\ \A r \in pruned : \/ r < player_row - SAFE_MARGIN_ROWS
                              \/ r > player_row + SAFE_MARGIN_ROWS
        /\ created \cap pruned = {}

\* an ensure_rows call that pruned a row at the high end and one that
\* created a row at the low end
C8_Witness ==
    /\ last_call = "ensure_rows"
    /\ \E r \in pruned : r > player_row + SAFE_MARGIN_ROWS + 10
    /\ \E r \in created : r = player_row - SAFE_MARGIN_ROWS

\* C9 as stated: every hazard row of the window (road, pads, logs) has a
\* column where an agent landing at rest at the column's centre survives
\* the hazards block.
C9_EveryHazardRowSolvable ==
    \A r \in Rows : IsHazard(r) => HasSafeColumn(r)

\* C9, amended: every road row and every pads row of the window has a
\* column where an agent landing at rest at the column's centre survives
\* the hazards block.
C9_RoadAndPadsSolvable ==
    \A r \in Rows : (IsRoad(r) \/ IsPads(r)) => HasSafeColumn(r)

\* a road row with a car over a column, that column being fatal, and a
\* pads row in the same window
C9_Witness ==
    /\ \E r \in Rows : /\ IsRoad(r)
                      /\ \E col \in 0..(COLS - 1) :
                            \A dt \in DtSet : ~LandsSafely(r, col, dt)
    /\ \E r \in Rows : IsPads(r)

\* C11: a hop keeps the resting row and x while the agent is in transit, and
\* it completes on the first tick at which the dt summed since the accepted
\* request reaches HOP_TIME and not before: that tick leaves the agent at
\* rest on the target centre and the target row, max_row the larger of its
\* old value and the target row.
C11_HopCompletes ==
    [][(player.moving /\ ~player.dead /\ ~restarted') =>
          IF hop_ms' >= HOP_TIME
          THEN /\ ~player'.moving
               /\ player'.x = player.target_x
               /\ player'.row = player.target_row
               /\ player'.max_row = Max(player.max_row, player.target_row)
          ELSE /\ player'.moving
               /\ player'.x = player.x
               /\ player'.row = player.row
               /\ player'.max_row = player.max_row]_vars

\* C10: try_move leaves every field of the Player as it was when the agent
\* is moving, or is dead, or the destination column is outside 0 .. COLS-1,
\* or the destination row is below -3; otherwise it starts a hop to the
\* destination cell and changes nothing else.
C10_TryMoveRejects ==
    tm.called =>
        LET col == tm.pre.x \div (TILE * 1000)
            rejected == \/ tm.pre.moving
                        \/ tm.pre.dead
                        \/ col + tm.dcol \notin 0..(COLS - 1)
                        \/ tm.pre.row + tm.drow < -3
        IN  IF rejected THEN tm.post = tm.pre
            ELSE tm.post = [tm.pre EXCEPT
                              !.moving = TRUE, !.t = FZero,
                              !.start_x = tm.pre.x, !.start_row = tm.pre.row,
                              !.target_x = ((col + tm.dcol) * TILE + TILE \div 2) * 1000,
                              !.target_row = tm.pre.row + tm.drow]

\* a request for row -4 by a live agent at rest on row -3
C10_Witness ==
    /\ tm.called
    /\ ~tm.pre.moving
    /\ ~tm.pre.dead
    /\ tm.pre.row = -3
    /\ tm.drow = -1
    /\ tm.dcol = 0

\* C12: whenever the agent is alive, its column int(x // TILE) is within
\* 0 .. COLS - 1 and its row is at least -3, also after a drifting platform
\* has carried it sideways for any number of ticks.
C12_ColumnInRange ==
    ~player.dead =>
        /\ current_col(player) >= 0
        /\ current_col(player) < COLS
        /\ player.row >= -3

\* C14: when the agent is at rest on a Stepping row, hazard resolution
\* leaves it alive if and only if its column is one of the row's reserved
\* columns (with reserved columns {2, 5, 7}: alive at column 5, dead at
\* column 3), and x, row and max_row are unchanged either way.
C14_PadsResolution ==
    (/\ frame > 0
     /\ ~hz.dead
     /\ ~hz.moving
     /\ HasLane(world.lanes, hz.row)
     /\ IsPads(hz.row))
    => /\ player.dead <=> current_col(hz) \notin SeqToSet(world.lanes[hz.row].lilypads)
       /\ player.x = hz.x
       /\ player.row = hz.row
       /\ player.max_row = hz.max_row

\* the agent has been set dead at column 3 of a row with pads on 2, 5 and 7
C14_Witness ==
    /\ frame > 0
    /\ ~hz.dead
    /\ ~hz.moving
    /\ HasLane(world.lanes, hz.row)
    /\ IsPads(hz.row)
    /\ SeqToSet(world.lanes[hz.row].lilypads) = {2, 5, 7}
    /\ current_col(hz) = 3
    /\ player.dead

\* the logs of row r that the hitbox of pl intersects
PlatformsUnder(pl, r) ==
    { i \in 1..Len(world.lanes[r].logs) :
        colliderect(hitbox_world(pl),
                    log_rect_world(world.lanes[r].logs[i], r * TILE)) }

\* C15: while the agent is at rest and alive on a Drifting row with its
\* hitbox on a platform, every tick displaces x by exactly the platform's
\* signed velocity times dt and leaves row and max_row unchanged; the agent
\* stays alive as long as the displaced x is inside [0, SCREEN_W] and dies
\* on the tick it leaves that range; with no platform under its hitbox it
\* dies.
C15_LogsResolution ==
    (/\ frame > 0
     /\ ~hz.dead
     /\ ~hz.moving
     /\ HasLane(world.lanes, hz.row)
     /\ IsLogs(hz.row))
    => /\ player.row = hz.row
       /\ player.max_row = hz.max_row
       /\ IF PlatformsUnder(hz, hz.row) = {}
          THEN player.dead /\ player.x = hz.x
          ELSE /\ \E i \in PlatformsUnder(hz, hz.row) :
                    player.x = hz.x + world.lanes[hz.row].logs[i].speed
                                        * world.lanes[hz.row].logs[i].dir * last_dt
               /\ player.dead <=> (player.x < 0 \/ player.x > SCREEN_W * 1000)

\* a tick after the landing tick has carried the agent 8 px to the right
\* (80 px/s for 0.1 s) and left it alive
C15_Witness ==
    /\ frame > 0
    /\ ~hz.dead
    /\ ~hz.moving
    /\ HasLane(world.lanes, hz.row)
    /\ IsLogs(hz.row)
    /\ hz.x % (TILE * 1000) # TILE * 500
    /\ last_dt = 100
    /\ player.x = hz.x + 8000
    /\ ~player.dead

\* the ages of the occupants of row r
EntryAges(r) ==
    IF IsRoad(r) THEN [i \in 1..Len(world.lanes[r].cars) |-> world.lanes[r].cars[i].age]
    ELSE [i \in 1..Len(world.lanes[r].logs) |-> world.lanes[r].logs[i].age]

\* C16: on a road row and on a Drifting row, any two occupants of the row
\* (a platform seeded at row creation included) entered at times at least
\* the row's interval floor apart: 0.28 s for vehicles, 0.35 s for
\* platforms, whatever the tick lengths.
C16_EntriesApart ==
    \A r \in Rows :
        (IsRoad(r) \/ IsLogs(r)) =>
            \A i, j \in 1..Len(EntryAges(r)) :
                i # j => Abs(EntryAges(r)[i] - EntryAges(r)[j])
                             >= (IF IsRoad(r) THEN 280 ELSE 350)

\* a Drifting row holds the platform seeded at its creation and one spawned
\* later
C16_Witness ==
    \E r \in Rows :
        /\ IsLogs(r)
        /\ Len(world.lanes[r].logs) >= 2
        /\ world.lanes[r].logs[1].age > world.lanes[r].logs[2].age
        /\ world.lanes[r].logs[2].age > 0

\* the spawn timer, the interval and the occupants of a road or logs lane,
\* and the time the deferral takes off the interval
SpawnTimer(lane) ==
    IF lane.type = "road" THEN lane.road_spawn_timer ELSE lane.log_spawn_timer

NextInterval(lane) ==
    IF lane.type = "road" THEN lane.road_next_spawn_time ELSE lane.log_next_spawn_time

Occupants(lane) == IF lane.type = "road" THEN lane.cars ELSE lane.logs

DeferBack(lane) == IF lane.type = "road" THEN 150 ELSE 120

\* the update call of this step put the spawn of lane a off, leaving b:
\* no occupant is created, the interval is not redrawn, and the timer is
\* clamped under the interval instead of being set to zero
DeferredNotRejected(a, b) ==
    /\ SpawnTimer(a) + last_dt' >= NextInterval(a)
    /\ Len(Occupants(b)) <= Len(Occupants(a))
    /\ \A i \in 1..Len(Occupants(b)) : Occupants(b)[i].age > 0
    /\ NextInterval(b) = NextInterval(a)
    /\ SpawnTimer(b) = NextInterval(a) - DeferBack(a)
    /\ SpawnTimer(b) > 0

\* the update call of this step, leaving b, made the timer test pass: it
\* spawned or put the spawn off
Attempted(b) == b.deferred \/ SpawnTimer(b) = 0

C18_ResetRebuilds ==
    /\ PlayerReset.row = 0
    /\ PlayerReset.x = ((COLS \div 2) * TILE + TILE \div 2) * 1000
    /\ ~PlayerReset.dead
    /\ ~PlayerReset.moving
    /\ PlayerReset.max_row = 0
    /\ reset(world, RestartZone, RestartDraws) = RestartWorlds
    /\ \A w \in reset(world, RestartZone, RestartDraws) :
          /\ DOMAIN w.lanes = -6..18
          /\ w.min_row = -6
          /\ w.max_row = 18
          /\ \A r \in -6..1 : w.lanes[r].type = "grass"
          /\ \A r \in 2..18 :
                (w.lanes[r].type = "river" /\ w.lanes[r].river_mode = "pads")
                   => w.lanes[r].route_col \in SeqToSet(w.lanes[r].lilypads)
    /\ restarted =>
          /\ -6..18 \subseteq Rows
          /\ world.max_row = 18
          /\ \A r \in -6..1 : world.lanes[r].type = "grass"
          /\ \E w \in RestartWorlds :
                \A r \in -6..18 :
                    /\ world.lanes[r].type = w.lanes[r].type
                    /\ world.lanes[r].river_mode = w.lanes[r].river_mode
                    /\ world.lanes[r].route_col = w.lanes[r].route_col
                    /\ world.lanes[r].lilypads = w.lanes[r].lilypads

\* the game has been restarted after the agent died with a river segment
\* pending at the top of the window
C18_Witness ==
    /\ restarted
    /\ ~player.dead
    /\ player.max_row = 0
    /\ world.max_row = 18
    /\ world.river_modes_queue = <<"logs", "pads">>

\* the cars of row r that the hitbox of pl intersects
CarsOver(pl, r) ==
    { i \in 1..Len(world.lanes[r].cars) :
        colliderect(hitbox_world(pl),
                    car_rect_world(world.lanes[r].cars[i], r * TILE)) }

\* C19: the hazard of a row is resolved in the tick in which the hop lands
\* on it: at the end of every tick an agent that is alive and at rest on a
\* road row has a hitbox that intersects no vehicle of the row, and one that
\* is alive and at rest on a Stepping row is on a reserved column.
C19_ResolvedOnLanding ==
    (/\ frame > 0
     /\ ~player.dead
     /\ ~player.moving
     /\ HasLane(world.lanes, player.row))
    => /\ IsRoad(player.row) => CarsOver(player, player.row) = {}
       /\ IsPads(player.row) =>
             current_col(player) \in SeqToSet(world.lanes[player.row].lilypads)

\* the tick in which the hop lands on a road row that has a car leaves the
\* agent alive
C19_Witness ==
    /\ frame > 0
    /\ ~player.dead
    /\ ~player.moving
    /\ IsRoad(player.row)
    /\ world.lanes[player.row].cars # <<>>
    /\ player.start_row # player.row
    /\ hop_ms >= HOP_TIME
    /\ hop_ms - last_dt < HOP_TIME

\* the lane-policy state of a World
PolicyState(w) ==
    <<w.consec_roads, w.grass_since_hazard, w.river_modes_queue, w.river_route_col>>

\* C20: every row ensure_rows creates at the low end of the window is Safe,
\* whatever a pruned row at that index was, and creating it leaves the
\* lane-policy counters and the river queue alone; no hazard row is created
\* below the lowest row of the window.
C20_LowEndSafe ==
    [][last_call' = "ensure_rows" =>
          /\ \A r \in created' :
                r < world.min_row =>
                    /\ r \in DOMAIN world'.lanes
                    /\ world'.lanes[r].type = "grass"
                    /\ world'.lanes[r].cars = <<>>
                    /\ world'.lanes[r].logs = <<>>
                    /\ world'.lanes[r].lilypads = <<>>
          /\ (\A r \in created' : r < world.min_row) =>
                PolicyState(world') = PolicyState(world)]_vars

\* row 2, made a hazard row by reset and pruned since, has been created
\* again at the low end
C20_Witness ==
    /\ last_call = "ensure_rows"
    /\ 2 \in created
    /\ player_row = 20
    /\ world.min_row = 2
    /\ world.lanes[2].type = "grass"

\* C13: death is terminal: once dead is set, no field of the agent (x, row,
\* moving, hop progress, max_row, dead) changes under ticks and movement
\* requests until a reset is performed.
C13_DeathTerminal ==
    [][(player.dead /\ ~restarted') => player' = player]_vars

\* a movement request made of a dead agent
C13_Witness ==
    /\ tm.called
    /\ tm.pre.dead
    /\ tm.drow = 1
    /\ player.dead

---------------------------------------------------------------------------
(* Occupants of one row *)

\* the horizontal extents of any two occupants are disjoint
ExtentsDisjoint(occ) ==
    \A i, j \in 1..Len(occ) :
        i # j => \/ occ[i].x + occ[i].w <= occ[j].x
                 \/ occ[j].x + occ[j].w <= occ[i].x

\* the occupants of lane b that were there before the update call of this
\* step, and whether the call created one
Earlier(b) == SelectSeq(Occupants(b), LAMBDA o : o.age > 0)

Entered(b) == \E i \in 1..Len(Occupants(b)) : Occupants(b)[i].age = 0

\* the occupant of occ nearest the spawn edge of the lane is c or more
\* inside the view
ClearOfEdge(lane, occ, c) ==
    IF lane.type = "road" \/ lane.log_dir = 1
    THEN LeftmostX(occ) >= c
    ELSE RightmostEnd(occ) <= SCREEN_W * 1000 - c

\* the clearances the test of lane can draw
Clearances(lane) ==
    IF lane.type = "road" THEN LaneDraws.car_clears ELSE LaneDraws.log_clears

\* the update call of this step took lane a to lane b: an occupant is
\* created only if the earlier occupant nearest the spawn edge is a drawn
\* clearance inside the view, and the distance between two occupants that
\* stay has not changed
SpawnedClearAndRigid(a, b) ==
    /\ (Entered(b) /\ Earlier(b) # <<>>) =>
            \E c \in Clearances(b) : ClearOfEdge(b, Earlier(b), c)
    /\ \A i, j \in 1..Len(Earlier(b)) :
            \E m, n \in 1..Len(Occupants(a)) :
                /\ Occupants(a)[m].age + last_dt' = Earlier(b)[i].age
                /\ Occupants(a)[n].age + last_dt' = Earlier(b)[j].age
                /\ Occupants(a)[m].x - Occupants(a)[n].x
                       = Earlier(b)[i].x - Earlier(b)[j].x

\* C21: on every road row and every Drifting row, in every reachable state,
\* any two occupants have disjoint horizontal extents; and in every tick an
\* occupant is created only when the occupant nearest the spawn edge is at
\* least a drawn clearance inside the view, and the distance between two
\* occupants that both stay is unchanged.
C21_OccupantsDisjoint ==
    /\ [](\A r \in Rows :
            (IsRoad(r) \/ IsLogs(r)) => ExtentsDisjoint(Occupants(world.lanes[r])))
    /\ [][\A r \in Rows \cap DOMAIN world'.lanes :
            (IsRoad(r) \/ IsLogs(r)) =>
                SpawnedClearAndRigid(world.lanes[r], world'.lanes[r])]_vars

\* a Drifting row moving left holds three platforms, the last of them
\* created by the latest tick
C21_Witness ==
    \E r \in Rows :
        /\ IsLogs(r)
        /\ world.lanes[r].log_dir = -1
        /\ Len(world.lanes[r].logs) = 3
        /\ world.lanes[r].logs[3].age = 0
        /\ world.lanes[r].logs[1].x + world.lanes[r].logs[1].w
              <= SCREEN_W * 1000 - TILE * 1000

\* C22: every Stepping row has its route-column platform and between 1 and
\* 3 more (2 to 4 in all), every platform column is in [0, COLS), and any two
\* platforms of the row are at least 2 columns apart, whatever the route
\* column in 0 .. COLS - 1 and the order of the shuffled columns.
C22_PadsRow ==
    \A r \in Rows :
        IsPads(r) =>
            LET pads == world.lanes[r].lilypads
            IN  /\ Len(pads) \in 2..4
                /\ pads[1] = world.lanes[r].route_col
                /\ \A i \in 1..Len(pads) : pads[i] \in 0..COLS - 1
                /\ \A i, j \in 1..Len(pads) :
                       i # j => Abs(pads[i] - pads[j]) >= 2

\* route column 0 with the shuffle 9, 1, 2, 0, 3, 4, ...: columns 1, 0 and 3
\* are passed over and the row gets three more platforms
C22_Witness ==
    /\ last_call = "lane"
    /\ world.lanes[2].route_col = 0
    /\ world.lanes[2].lilypads = <<0, 9, 2, 4>>

\* C23: the agent is never dead and in mid-hop at once; a frame sets dead
\* only on an agent the hazards block finds at rest, and a try_move call
\* starts a hop only on a live agent.
C23_NeverDeadInTransit ==
    /\ [](~(player.dead /\ player.moving))
    /\ [][/\ (player'.dead /\ ~hz'.dead) => ~hz'.moving
          /\ (tm'.called /\ tm'.post.moving /\ ~tm'.pre.moving) => ~tm'.pre.dead]_vars

\* the frame in which a hop lands on row 2 sets the agent dead there, at rest
C23_Witness ==
    /\ player.dead
    /\ ~player.moving
    /\ ~hz.dead
    /\ ~hz.moving
    /\ player.row = 2
    /\ tm.called
    /\ tm.post.moving

\* C24: the consecutive-road counter of the lane policy never exceeds 1: the
\* call after one that returned a road takes the grass-buffer rule, which
\* sets the counter to zero, and no call takes the cap rule
\* (_consec_roads >= MAX_CONSEC_ROADS).
C24_CapNeverTaken ==
    /\ [](world.consec_roads <= 1 /\ last_call # "cap")
    /\ [][last_call = "road" =>
             (last_call' = "buffer" /\ world'.consec_roads = 0)]_vars

\* a call has returned a road after two earlier calls: the counter is 1
C24_Witness ==
    /\ last_call = "road"
    /\ world.consec_roads = 1
    /\ world.grass_since_hazard = 0
    /\ frame >= 3

=============================================================================
